---- MODULE Spec2Model ----
(***************************************************************************)
(* Model of langs/StdLibs/one.hpp: OneMapHelper::keys / values,            *)
(* OneStringHelper::split and OneFile::readText.                           *)
(*                                                                         *)
(* A caller sits in "idle", calls one of the helpers with inputs drawn     *)
(* from bounded sets, the helper runs statement by statement, and the      *)
(* caller observes the returned value before going back to "idle".         *)
(* Strings are sequences of one-character strings; positions are 0-based   *)
(* as in the C++ code (str[i] of the code is str[i + 1] here).             *)
(***************************************************************************)
EXTENDS Integers, Sequences, FiniteSets, TLC

VARIABLES
    pc,          \* position of the running call
    platform,    \* the build's text-mode convention for file streams
    str, delim,  \* split: arguments
    prev, pos,   \* split: the two size_t locals
    tokens,      \* split: the vector being built / returned
    map,         \* keys/values: the std::map argument
    keysRet,     \* keys: returned vector (NotCalled before the call)
    valuesRet,   \* values: returned vector (NotCalled before the call)
    disk,        \* readText: what the file system holds at `path`
    isOpen,      \* readText: ifstream::is_open()
    failbit,     \* readText: the stream's failbit (a local, not returned)
    getArea,     \* readText: characters the stream buffer still delivers
    content,     \* readText: the string being built
    ret          \* readText: what the caller receives

vars == <<pc, platform, str, delim, prev, pos, tokens, map, keysRet,
          valuesRet, disk, isOpen, failbit, getArea, content, ret>>

splitVars == <<str, delim, prev, pos, tokens>>
mapVars   == <<map, keysRet, valuesRet>>
fileVars  == <<disk, isOpen, failbit, getArea, content, ret>>

---------------------------------------------------------------------------
(* Bounds of the model and the input sets.                                 *)

MaxLen      == 4   \* longest str passed to split
MaxDelim    == 2   \* longest delim passed to split
MaxKey      == 3   \* map keys are 1..MaxKey
MaxFileLen  == 3   \* longest file on disk

\* push_back throws once the vector cannot grow any more; capacity is
\* chosen above anything a terminating call can need.
MaxTokens   == MaxLen + 2

Alphabet    == {"a", "b", ","}
FileChars   == {"h", "\n", "\r", "^Z"}
MapVals     == {"x", "y"}
Platforms   == {"posix", "windows"}

RECURSIVE SeqsUpTo(_, _)
SeqsUpTo(S, n) ==
    IF n = 0 THEN {<<>>}
    ELSE LET shorter == SeqsUpTo(S, n - 1)
         IN  shorter \cup {Append(s, c) : s \in {t \in shorter : Len(t) = n - 1}, c \in S}

Strings     == SeqsUpTo(Alphabet, MaxLen)
Delims      == SeqsUpTo(Alphabet, MaxDelim)
Files       == SeqsUpTo(FileChars, MaxFileLen)
MapKeys     == 1..MaxKey
Maps        == UNION {[D -> MapVals] : D \in SUBSET MapKeys}

\* disk: no file can be opened at the path, or a file holding these bytes
NoFile      == [exists |-> FALSE, bytes |-> <<>>]
FileWith(b) == [exists |-> TRUE, bytes |-> b]
\* keysRet / valuesRet / ret before and after the call returns
NotCalled   == [kind |-> "none", value |-> <<>>]
Returned(v) == [kind |-> "value", value |-> v]


SetMin(S)   == CHOOSE x \in S : \A y \in S : x <= y

---------------------------------------------------------------------------
(* OneStringHelper::split                                                  *)

\* string::npos is size_type(-1).
npos == -1

\* delim occurs in s at 0-based offset x.
MatchAt(s, d, x) ==
    /\ x + Len(d) <= Len(s)
    /\ \A j \in 1..Len(d) : s[x + j] = d[j]

\* s.find(d, from): the lowest offset >= from at which d occurs, else npos.
FindFromStart(s, d, from) ==
    LET hits == {x \in 0..Len(s) : MatchAt(s, d, x)}
    IN  IF hits = {} THEN npos ELSE SetMin(hits)
Find(s, d, from) ==
    LET hits == {x \in from..Len(s) : MatchAt(s, d, x)}
    IN  IF hits = {} THEN npos ELSE SetMin(hits)

\* line 39: if (pos == string::npos) pos = str.length();
ClampNpos(p, s) == IF p = npos THEN Len(s) ELSE p

\* s.substr(p, n): at most n characters from offset p, cut at the end of s.
\* n is a size_t: a negative difference wraps to a huge count.
SubstrShort(s, p, n) ==
    LET rlen == IF n < 0 \/ n > Len(s) - p THEN Len(s) - p ELSE n
    IN  SubSeq(s, p + 1, p + rlen - 1)
Substr(s, p, n) ==
    LET rlen == IF n < 0 \/ n > Len(s) - p THEN Len(s) - p ELSE n
    IN  SubSeq(s, p + 1, p + rlen)

\* line 41: tokens.push_back(token);
PushBackSkipEmpty(v, token) == IF token = <<>> THEN v ELSE Append(v, token)
PushBack(v, token) == Append(v, token)

\* line 42: prev = pos + delim.length();
NextPrevNoAdvance(p, d) == p
NextPrev(p, d) == p + Len(d)

\* line 44: while (pos < str.length() && prev < str.length());
LoopCond(p, pr, s) == p < Len(s) /\ pr < Len(s)

\* The caller invokes split(str, delim); line 35: size_t prev = 0, pos = 0;
CallSplit ==
    /\ pc = "idle"
    /\ pc' = "find"
    /\ \E s \in Strings, d \in Delims : str' = s /\ delim' = d
    /\ prev' = 0 /\ pos' = 0
    /\ tokens' = <<>>
    /\ UNCHANGED <<platform, mapVars, fileVars>>

\* lines 38-39
SplitFind ==
    /\ pc = "find"
    /\ pos' = ClampNpos(Find(str, delim, prev), str)
    /\ pc' = "push"
    /\ UNCHANGED <<platform, str, delim, prev, tokens, mapVars, fileVars>>

\* lines 40-42
SplitPush ==
    /\ pc = "push"
    /\ Len(tokens) < MaxTokens
    /\ tokens' = PushBack(tokens, Substr(str, prev, pos - prev))
    /\ prev' = NextPrev(pos, delim)
    /\ pc' = "test"
    /\ UNCHANGED <<platform, str, delim, pos, mapVars, fileVars>>

\* line 41 when the vector cannot grow: push_back throws, split is left
\* through the exception and no vector is returned.
SplitPushThrows ==
    /\ pc = "push"
    /\ Len(tokens) >= MaxTokens
    /\ pc' = "bad_alloc"
    /\ UNCHANGED <<platform, splitVars, mapVars, fileVars>>

\* line 44, condition true: next iteration
SplitLoop ==
    /\ pc = "test"
    /\ LoopCond(pos, prev, str)
    /\ pc' = "find"
    /\ UNCHANGED <<platform, splitVars, mapVars, fileVars>>

\* line 44, condition false, and line 46: return tokens;
SplitReturn ==
    /\ pc = "test"
    /\ ~LoopCond(pos, prev, str)
    /\ pc' = "returned"
    /\ UNCHANGED <<platform, splitVars, mapVars, fileVars>>

SplitStep == SplitFind \/ SplitPush \/ SplitPushThrows \/ SplitLoop \/ SplitReturn

---------------------------------------------------------------------------
(* OneMapHelper::keys / values over a std::map<K,V> (ordered by key).      *)
(* An iterator is the key it points at; end() is one past every key.       *)

MapEnd == MaxKey + 1

\* map.begin()
MapBegin(m) == IF DOMAIN m = {} THEN MapEnd ELSE SetMin(DOMAIN m)

\* ++it: the in-order successor
MapNext(m, it) ==
    LET later == {k \in DOMAIN m : k > it}
    IN  IF later = {} THEN MapEnd ELSE SetMin(later)

\* lines 16-17: for (it = begin; it != end; ++it) result.push_back(it->first);
RECURSIVE KeysLoop(_, _, _)
KeysLoop(m, it, result) ==
    IF it = MapEnd THEN result
    ELSE KeysLoop(m, MapNext(m, it), Append(result, it))

\* lines 23-24: ... result.push_back(it->second);
RECURSIVE ValuesLoop(_, _, _)
ValuesLoop(m, it, result) ==
    IF it = MapEnd THEN result
    ELSE ValuesLoop(m, MapNext(m, it), Append(result, m[it]))

RECURSIVE ValuesLoopPrepend(_, _, _)
ValuesLoopPrepend(m, it, result) ==
    IF it = MapEnd THEN result
    ELSE ValuesLoopPrepend(m, MapNext(m, it), <<m[it]>> \o result)

keys(m) == KeysLoop(m, MapBegin(m), <<>>)

valuesReversed(m) == ValuesLoopPrepend(m, MapBegin(m), <<>>)
values(m) == ValuesLoop(m, MapBegin(m), <<>>)

\* The caller builds a map and is about to query it.
CallMapHelpers ==
    /\ pc = "idle"
    /\ pc' = "map"
    /\ \E m \in Maps : map' = m
    /\ keysRet' = NotCalled /\ valuesRet' = NotCalled
    /\ UNCHANGED <<platform, splitVars, fileVars>>

Keys ==
    /\ pc = "map"
    /\ keysRet = NotCalled
    /\ keysRet' = Returned(keys(map))
    /\ UNCHANGED <<pc, platform, map, valuesRet, splitVars, fileVars>>

Values ==
    /\ pc = "map"
    /\ valuesRet = NotCalled
    /\ valuesRet' = Returned(values(map))
    /\ UNCHANGED <<pc, platform, map, keysRet, splitVars, fileVars>>

---------------------------------------------------------------------------
(* OneFile::readText                                                       *)

\* What a stream opened without ios::binary delivers for the bytes on disk.
\* POSIX: the bytes themselves.  Windows C runtime: CR LF is delivered as
\* LF and Ctrl-Z ends the input.
RECURSIVE TextModeIn(_, _)
TextModeIn(plat, bytes) ==
    IF plat = "posix" \/ bytes = <<>> THEN bytes
    ELSE IF Head(bytes) = "^Z" THEN <<>>
    ELSE IF Len(bytes) >= 2 /\ bytes[1] = "\r" /\ bytes[2] = "\n"
         THEN <<"\n">> \o TextModeIn(plat, Tail(Tail(bytes)))
    ELSE <<Head(bytes)>> \o TextModeIn(plat, Tail(bytes))

\* The caller invokes readText(path); the environment decides what is at path.
CallReadText ==
    /\ pc = "idle"
    /\ pc' = "open"
    /\ \E f \in {FileWith(b) : b \in Files} \cup {NoFile} : disk' = f
    /\ isOpen' = FALSE /\ failbit' = FALSE
    /\ getArea' = <<>> /\ content' = <<>>
    /\ ret' = NotCalled
    /\ UNCHANGED <<platform, splitVars, mapVars>>

\* line 54: ifstream file(path);  -- a failed open only sets failbit
ReadTextOpen ==
    /\ pc = "open"
    /\ isOpen' = disk.exists
    /\ failbit' = ~disk.exists
    /\ getArea' = IF disk.exists THEN TextModeIn(platform, disk.bytes) ELSE <<>>
    /\ pc' = "read"
    /\ UNCHANGED <<platform, disk, content, ret, splitVars, mapVars>>

\* line 55: one step of the istreambuf_iterator range: *it, ++it
ReadTextChar ==
    /\ pc = "read"
    /\ getArea # <<>>
    /\ content' = Append(content, Head(getArea))
    /\ getArea' = Tail(getArea)
    /\ UNCHANGED <<pc, platform, disk, isOpen, failbit, ret, splitVars, mapVars>>

\* line 55 at end of input (an unopened buffer is at end of input at once),
\* line 56: return content; the stream is destroyed, closing the file.
ReadTextReturn ==
    /\ pc = "read"
    /\ getArea = <<>>
    /\ ret' = Returned(content)
    /\ isOpen' = FALSE
    /\ pc' = "read_returned"
    /\ UNCHANGED <<platform, disk, failbit, getArea, content, splitVars, mapVars>>

---------------------------------------------------------------------------
(* The caller                                                              *)

\* The caller is done with the returned value.
Reset ==
    /\ \/ pc = "returned"
       \/ pc = "read_returned"
       \/ pc = "map" /\ keysRet # NotCalled /\ valuesRet # NotCalled
    /\ pc' = "idle"
    /\ str' = <<>> /\ delim' = <<>> /\ prev' = 0 /\ pos' = 0 /\ tokens' = <<>>
    /\ map' = <<>> /\ keysRet' = NotCalled /\ valuesRet' = NotCalled
    /\ disk' = NoFile /\ isOpen' = FALSE /\ failbit' = FALSE
    /\ getArea' = <<>> /\ content' = <<>> /\ ret' = NotCalled
    /\ UNCHANGED platform

Init ==
    /\ pc = "idle"
    /\ platform \in Platforms
    /\ str = <<>> /\ delim = <<>> /\ prev = 0 /\ pos = 0 /\ tokens = <<>>
    /\ map = <<>> /\ keysRet = NotCalled /\ valuesRet = NotCalled
    /\ disk = NoFile /\ isOpen = FALSE /\ failbit = FALSE
    /\ getArea = <<>> /\ content = <<>> /\ ret = NotCalled

Next ==
    \/ CallSplit
    \/ SplitStep
    \/ CallMapHelpers
    \/ Keys
    \/ Values
    \/ CallReadText
    \/ ReadTextOpen
    \/ ReadTextChar
    \/ ReadTextReturn
    \/ Reset

Spec == Init /\ [][Next]_vars

\* A call that has started keeps executing: the helpers are straight-line
\* sequential code that never waits for anything.
FairSpec == Spec /\ WF_vars(SplitStep)

---------------------------------------------------------------------------
(* Reference notions the properties are stated with.  They are written     *)
(* from the description of splitting, independently of the operators above.*)

Occurs(s, d, x) == x + Len(d) <= Len(s) /\ SubSeq(s, x + 1, x + Len(d)) = d

NoOccurrence(s, d) == \A x \in 0..Len(s) : ~Occurs(s, d, x)

\* Offsets of the leftmost, non-overlapping occurrences of d in s at or
\* after offset from, scanning left to right.
RECURSIVE RefMatches(_, _, _)
RefMatches(s, d, from) ==
    LET hits == {x \in from..Len(s) : Occurs(s, d, x)}
    IN  IF hits = {} THEN <<>>
        ELSE LET x == SetMin(hits) IN <<x>> \o RefMatches(s, d, x + Len(d))

\* The reference split: the piece before each match, then the rest.
RefSplit(s, d) ==
    LET mt == RefMatches(s, d, 0)
        n  == Len(mt)
        from(j) == IF j = 1 THEN 0 ELSE mt[j - 1] + Len(d)
        upto(j) == IF j = n + 1 THEN Len(s) ELSE mt[j]
    IN  [j \in 1..(n + 1) |-> SubSeq(s, from(j) + 1, upto(j))]

\* The scan matched an occurrence of d that ends exactly at the end of s.
TrailingDelim(s, d) ==
    LET mt == RefMatches(s, d, 0)
    IN  mt # <<>> /\ mt[Len(mt)] + Len(d) = Len(s)

RECURSIVE Join(_, _)
Join(parts, d) ==
    IF parts = <<>> THEN <<>>
    ELSE IF Len(parts) = 1 THEN parts[1]
    ELSE parts[1] \o d \o Join(Tail(parts), d)

Contains(s, d) == \E x \in 0..Len(s) : Occurs(s, d, x)

SplitDone == pc = "returned" /\ delim # <<>>

---------------------------------------------------------------------------
(* Properties                                                              *)

\* C1: for every str and non-empty delim, split(str, delim) returns exactly
\* the reference split: one element per leftmost non-overlapping match plus
\* the remaining suffix, also when that suffix is empty.
C1_SplitIsRefSplit == SplitDone => tokens = RefSplit(str, delim)

\* C2: when str ends with a matched occurrence of delim, the last element
\* of split(str, delim) is the empty string.
C2_TrailingDelimGivesEmptyLast ==
    SplitDone /\ TrailingDelim(str, delim)
        => tokens[Len(tokens)] = <<>>

\* C3: readText on a path that cannot be opened signals a failure; it never
\* returns a string, in particular not the empty string an empty file gives.
C3_OpenFailureSignalled ==
    pc = "read_returned" /\ ~disk.exists => ret.kind = "error"

\* C4 as claimed: split terminates and returns for every str and every
\* delim of any length.
C4_TerminatesForEveryDelim == (pc = "find") ~> (pc = "returned")

\* C4 amended: split terminates and returns for every str and every
\* non-empty delim, and for the empty delim when str is empty too.
C4_TerminatesForNonEmptyDelim ==
    (pc = "find" /\ (delim # <<>> \/ str = <<>>)) ~> (pc = "returned")

\* Why the empty delim does not terminate on a non-empty str: find returns
\* prev itself, so every iteration starts again from prev = 0, pos = 0 and
\* only the vector grows; the call can end only by push_back failing.
EmptyDelimMakesNoProgress ==
    delim = <<>> /\ str # <<>> /\ pc \in {"find", "push", "test", "bad_alloc"}
        => prev = 0 /\ pos = 0 /\ \A i \in 1..Len(tokens) : tokens[i] = <<>>

C4_Witness == pc = "returned" /\ delim # <<>> /\ Len(tokens) >= 3

\* C5: keys(m) and values(m) both have as many elements as m has entries,
\* and (keys(m)[i], values(m)[i]) is the i-th entry of m in ascending key
\* order.
C5_KeysValuesAligned ==
    LET n == Cardinality(DOMAIN map)
        Rank(k) == Cardinality({j \in DOMAIN map : j < k}) + 1
        ks == keysRet.value
        vs == valuesRet.value
    IN  /\ pc = "map" /\ keysRet.kind = "value"
            => /\ Len(ks) = n
               /\ \A i \in 1..n : ks[i] \in DOMAIN map /\ Rank(ks[i]) = i
        /\ pc = "map" /\ valuesRet.kind = "value"
            => /\ Len(vs) = n
               /\ \A k \in DOMAIN map : vs[Rank(k)] = map[k]
        /\ pc = "map" /\ keysRet.kind = "value" /\ valuesRet.kind = "value"
            => \A i \in 1..n : vs[i] = map[ks[i]]

C5_Witness ==
    /\ pc = "map" /\ keysRet.kind = "value" /\ valuesRet.kind = "value"
    /\ Cardinality(DOMAIN map) >= 2
    /\ valuesRet.value[1] # valuesRet.value[2]
    /\ keysRet.value[1] # 1

\* C6: consecutive occurrences of a non-empty delim that are followed by at
\* least one more character give an empty element between the neighbouring
\* elements; empty elements are not collapsed.
C6_ConsecutiveDelimsGiveEmpty ==
    SplitDone =>
        LET mt == RefMatches(str, delim, 0)
            ref == RefSplit(str, delim)
        IN  \A j \in 1..(Len(mt) - 1) :
                mt[j + 1] = mt[j] + Len(delim) /\ mt[j + 1] + Len(delim) < Len(str)
                    => /\ Len(tokens) >= j + 2
                       /\ tokens[j + 1] = <<>>
                       /\ tokens[j] = ref[j]
                       /\ tokens[j + 2] = ref[j + 2]

C6_Witness ==
    /\ SplitDone
    /\ str = <<"a", ",", ",", "b">> /\ delim = <<",">>
    /\ tokens = << <<"a">>, <<>>, <<"b">> >>

\* C7: when the non-empty delim does not occur in str, split(str, delim) is
\* the one-element sequence [str]; for the empty str that is [""].
C7_NoMatchGivesWhole ==
    SplitDone /\ NoOccurrence(str, delim) => tokens = <<str>>

C7_Witness ==
    /\ SplitDone /\ NoOccurrence(str, delim)
    /\ str = <<>> /\ tokens = << <<>> >>

\* C8: for every file that can be opened, readText returns exactly the
\* characters the file holds, same length and order, nothing transformed.
C8_ReadTextReturnsContents ==
    pc = "read_returned" /\ disk.exists => ret = Returned(disk.bytes)

\* C9: joining the elements of split(str, delim) with delim in between
\* gives back str, for every str and non-empty delim.
C9_JoinRoundTrip == SplitDone => Join(tokens, delim) = str

\* C10: for a non-empty delim, prev <= pos <= length(str) whenever a token
\* is taken, prev strictly increases from one iteration to the next, and no
\* element of the result contains delim.
C10_LoopInvariant ==
    /\ [](delim # <<>> /\ pc = "push" => 0 <= prev /\ prev <= pos /\ pos <= Len(str))
    /\ [](delim # <<>> => \A i \in 1..Len(tokens) : ~Contains(tokens[i], delim))
    /\ [][delim # <<>> /\ pc = "push" /\ pc' = "test" => prev' > prev]_vars

C10_Witness ==
    /\ pc = "push" /\ delim # <<>> /\ Len(tokens) >= 1 /\ prev < pos /\ pos < Len(str)

====
